---- MODULE Spec2Model ----
(***************************************************************************)
(* State-machine model of run_txt_demo.py: the valuation engine            *)
(* (monatszins, folgewert, berechne_zeitplan), the importer                *)
(* (import_vertraege_txt), the exporter (erstelle_brief,                   *)
(* export_ergebnisse) and the handlers of ZurichApp.                       *)
(*                                                                         *)
(* Python floats are modelled as exact rationals extended with nan and     *)
(* +/-inf.  The enumerated amounts and rates are dyadic, so every float    *)
(* operation of the program is exact on them.                              *)
(***************************************************************************)
EXTENDS Integers, Sequences, FiniteSets, TLC

\* ------------------------------------------------------------------ bounds

\* Largest number of months of an enumerated contract.
MaxMonate == 4

\* Largest number of data rows of an enumerated input file.
MaxZeilen == 3

\* Largest number of contracts of an enumerated list passed to the exporter.
MaxVertraege == 3

\* ------------------------------------------------------------ float values

RECURSIVE Gcd(_, _)
Gcd(a, b) == IF b = 0 THEN a ELSE Gcd(b, a % b)

Abs(x) == IF x < 0 THEN -x ELSE x

\* A finite float n/d in lowest terms, d > 0.
Fin(n, d) ==
    LET g == Gcd(Abs(n), Abs(d))
        s == IF d < 0 THEN -1 ELSE 1
    IN  [k |-> "fin", n |-> s * (n \div g), d |-> s * (d \div g)]

FNaN == [k |-> "nan", n |-> 0, d |-> 1]
FInf(s) == [k |-> "inf", n |-> s, d |-> 1]

FInt(n) == Fin(n, 1)

\* The sign of a float that is not nan: -1, 0 or 1.
FSign(a) == IF a.n < 0 THEN -1 ELSE IF a.n > 0 THEN 1 ELSE 0

\* a + b
FAdd(a, b) ==
    IF a.k = "nan" \/ b.k = "nan" THEN FNaN
    ELSE IF a.k = "inf" /\ b.k = "inf" THEN (IF a.n = b.n THEN a ELSE FNaN)
    ELSE IF a.k = "inf" THEN a
    ELSE IF b.k = "inf" THEN b
    ELSE Fin(a.n * b.d + b.n * a.d, a.d * b.d)

\* a - b
FSub(a, b) == FAdd(a, [b EXCEPT !.n = -b.n])

\* a * b
FMul(a, b) ==
    IF a.k = "nan" \/ b.k = "nan" THEN FNaN
    ELSE IF a.k = "inf" \/ b.k = "inf"
         THEN (IF FSign(a) * FSign(b) = 0 THEN FNaN ELSE FInf(FSign(a) * FSign(b)))
    ELSE Fin(a.n * b.n, a.d * b.d)

\* a / 12.0
FDiv12(a) == IF a.k = "fin" THEN Fin(a.n, a.d * 12) ELSE a

\* a < 0 (every comparison with nan is false)
FNeg(a) == a.k # "nan" /\ a.n < 0

\* a >= 0
FNonNeg(a) == a.k # "nan" /\ a.n >= 0

\* round(a, 2): to the nearest multiple of 1/100, a tie to the even one;
\* nan and inf are returned as they are.
Round2(a) ==
    IF a.k # "fin" THEN a
    ELSE LET q == (a.n * 100) \div a.d
             r == (a.n * 100) % a.d
             up == \/ 2 * r > a.d
                   \/ (2 * r = a.d /\ q % 2 = 1)
         IN  Fin(IF up THEN q + 1 ELSE q, 100)

\* --------------------------------------------------------------- variables

VARIABLES
    pc,            \* position of the running handler or function; "idle" between handlers
    caller,        \* who called berechne_zeitplan: "direct", "export" or "preview"
    zp_v,          \* berechne_zeitplan: the argument v
    zp_i,          \* berechne_zeitplan: i
    zp_wert,       \* berechne_zeitplan: wert
    zp_m,          \* berechne_zeitplan: the loop variable m (0 before the loop)
    zp_zeitplan,   \* berechne_zeitplan: zeitplan
    zp_out,        \* berechne_zeitplan: what it returned or raised
    imp_path,      \* import_vertraege_txt: the file behind path
    imp_line,      \* import_vertraege_txt: number of lines the reader has consumed
    imp_vertraege, \* import_vertraege_txt: vertraege
    imp_out,       \* import_vertraege_txt: what it returned or raised
    exp_vertraege, \* export_ergebnisse: the argument vertraege
    exp_idx,       \* export_ergebnisse: position of v in vertraege (1-based)
    exp_out,       \* export_ergebnisse: what it returned or raised
    results_csv,   \* disk: the data rows of results.csv
    letters,       \* disk: the files of letters/, by contract number
    io_log,        \* the write_text calls of the running or last export, in order
    input_file,    \* ZurichApp.input_file
    out_dir,       \* ZurichApp.out_dir
    vertraege,     \* ZurichApp.vertraege
    btn_run,       \* state of btn_run and btn_preview
    last           \* the last message box and log line

zpVars == <<zp_v, zp_i, zp_wert, zp_m, zp_zeitplan, zp_out>>
impVars == <<imp_path, imp_line, imp_vertraege, imp_out>>
expVars == <<exp_vertraege, exp_idx, exp_out>>
diskVars == <<results_csv, letters, io_log>>
appVars == <<input_file, out_dir, vertraege, btn_run, last>>
vars == <<pc, caller, zpVars, impVars, expVars, diskVars, appVars>>

\* ---------------------------------------------------------------- Vertrag

Vertrag(nr, name, zins, beitrag, kosten, start, monate) ==
    [vertragsnr |-> nr, kundenname |-> name, jahreszins |-> zins,
     monatsbeitrag |-> beitrag, monatskosten |-> kosten,
     startbetrag |-> start, monate |-> monate]

\* The value of a local that holds no contract.
KeinVertrag == Vertrag(0, <<>>, FInt(0), FInt(0), FInt(0), FInt(0), 0)

\* -------------------------------------------------------------- exceptions

\* An exception: the literal text of its message, the contract fields that
\* text names, and the values interpolated into it.
Exc(type, text, felder, args) ==
    [type |-> type, text |-> text, felder |-> felder, args |-> args]

KeinFehler == Exc("", "", {}, <<>>)

Returned(value) == [status |-> "ok", value |-> value, exc |-> KeinFehler]
Raised(exc) == [status |-> "raised", value |-> <<>>, exc |-> exc]
Pending == [status |-> "none", value |-> <<>>, exc |-> KeinFehler]

\* ------------------------------------------------------ valuation engine

monatszins(jahreszins) == FDiv12(jahreszins)

\* Mutation of folgewert: the net inflow is left out of the update.
folgewert_ohneNetto(v_t, beitrag, kosten, i) == FMul(v_t, FAdd(FInt(1), i))

folgewert(v_t, beitrag, kosten, i) ==
    LET netto == FSub(beitrag, kosten)
    IN  FAdd(FMul(v_t, FAdd(FInt(1), i)), netto)

\* Mutation of Plausibilitaet: zero months pass the first check.
Plausibilitaet_NullMonate(v) ==
    IF v.monate < 0
    THEN Exc("ValueError", "Monate muessen > 0 sein.", {"monate"}, <<>>)
    ELSE IF FNeg(v.startbetrag)
    THEN Exc("ValueError", "Startbetrag darf nicht negativ sein.",
             {"startbetrag"}, <<>>)
    ELSE IF FNeg(v.monatsbeitrag) \/ FNeg(v.monatskosten)
    THEN Exc("ValueError", "Beitrag/Kosten duerfen nicht negativ sein.",
             {"monatsbeitrag", "monatskosten"}, <<>>)
    ELSE KeinFehler

\* The plausibility checks of berechne_zeitplan, in their order: the
\* exception the first failing one raises, KeinFehler when all pass.
Plausibilitaet(v) ==
    IF v.monate <= 0
    THEN Exc("ValueError", "Monate muessen > 0 sein.", {"monate"}, <<>>)
    ELSE IF FNeg(v.startbetrag)
    THEN Exc("ValueError", "Startbetrag darf nicht negativ sein.",
             {"startbetrag"}, <<>>)
    ELSE IF FNeg(v.monatsbeitrag) \/ FNeg(v.monatskosten)
    THEN Exc("ValueError", "Beitrag/Kosten duerfen nicht negativ sein.",
             {"monatsbeitrag", "monatskosten"}, <<>>)
    ELSE KeinFehler

\* Mutation of WertNegativ: a value of exactly 0 raises as well.
WertNegativ_oderNull(wert) == wert.k # "nan" /\ wert.n <= 0

\* The test of the loop body that raises.
WertNegativ(wert) == FNeg(wert)

NegativerWert(v, m) ==
    Exc("ValueError", "Negativer Vertragswert bei Vertrag {} (Monat {}).", {},
        [vertragsnr |-> v.vertragsnr, monat |-> m])

\* The tuple the loop body appends.
Eintrag(m, wert) == <<m, Round2(wert)>>

\* Lines 58-68: the locals are set, then the plausibility checks run.
ZpCheck ==
    /\ pc = "zp_check"
    /\ zp_i' = monatszins(zp_v.jahreszins)
    /\ zp_wert' = zp_v.startbetrag
    /\ zp_zeitplan' = <<>>
    /\ zp_m' = 0
    /\ IF Plausibilitaet(zp_v) # KeinFehler
       THEN /\ zp_out' = Raised(Plausibilitaet(zp_v))
            /\ pc' = "zp_done"
       ELSE /\ zp_out' = zp_out
            /\ pc' = "zp_loop"
    /\ UNCHANGED <<caller, zp_v, impVars, expVars, diskVars, appVars>>

\* Lines 71-81: one iteration of the loop over range(1, v.monate + 1).
ZpStep ==
    /\ pc = "zp_loop"
    /\ zp_m < zp_v.monate
    /\ LET m == zp_m + 1
           wert == folgewert(zp_wert, zp_v.monatsbeitrag, zp_v.monatskosten, zp_i)
       IN  /\ zp_m' = m
           /\ zp_wert' = wert
           /\ IF WertNegativ(wert)
              THEN /\ zp_out' = Raised(NegativerWert(zp_v, m))
                   /\ zp_zeitplan' = zp_zeitplan
                   /\ pc' = "zp_done"
              ELSE /\ zp_zeitplan' = Append(zp_zeitplan, Eintrag(m, wert))
                   /\ zp_out' = zp_out
                   /\ pc' = pc
    /\ UNCHANGED <<caller, zp_v, zp_i, impVars, expVars, diskVars, appVars>>

\* Line 83: the loop is exhausted and zeitplan is returned.
ZpReturn ==
    /\ pc = "zp_loop"
    /\ zp_m >= zp_v.monate
    /\ zp_out' = Returned(zp_zeitplan)
    /\ pc' = "zp_done"
    /\ UNCHANGED <<caller, zp_v, zp_i, zp_wert, zp_m, zp_zeitplan,
                   impVars, expVars, diskVars, appVars>>

\* ---------------------------------------------------------------- strings

\* A str is a sequence of characters; a file is the sequence of rows that
\* csv.reader(f, delimiter=";") yields for it, each row a sequence of str
\* (a blank line yields the empty row).

Whitespace == {" "}
Digits == <<"0", "1", "2", "3", "4", "5", "6", "7", "8", "9">>

IsDigit(c) == \E k \in 1 .. 10 : Digits[k] = c
DigitValue(c) == (CHOOSE k \in 1 .. 10 : Digits[k] = c) - 1

RECURSIVE lstrip(_)
lstrip(s) ==
    IF s # <<>> /\ Head(s) \in Whitespace THEN lstrip(Tail(s)) ELSE s

RECURSIVE rstrip(_)
rstrip(s) ==
    IF s # <<>> /\ s[Len(s)] \in Whitespace
    THEN rstrip(SubSeq(s, 1, Len(s) - 1))
    ELSE s

\* str.strip()
strip(s) == rstrip(lstrip(s))

AllDigits(s) == s # <<>> /\ \A k \in 1 .. Len(s) : IsDigit(s[k])

RECURSIVE DigitsValue(_)
DigitsValue(s) ==
    IF s = <<>> THEN 0
    ELSE 10 * DigitsValue(SubSeq(s, 1, Len(s) - 1)) + DigitValue(s[Len(s)])

RECURSIVE Pow10(_)
Pow10(n) == IF n = 0 THEN 1 ELSE 10 * Pow10(n - 1)

HasSign(s) == s # <<>> /\ Head(s) \in {"+", "-"}
Unsigned(s) == IF HasSign(s) THEN Tail(s) ELSE s
SignOf(s) == IF s # <<>> /\ Head(s) = "-" THEN -1 ELSE 1

\* int(s) accepts an optional sign and decimal digits.
IntOk(s) == AllDigits(Unsigned(strip(s)))
IntValue(s) == SignOf(strip(s)) * DigitsValue(Unsigned(strip(s)))

\* The position of the first "." of s, 0 when there is none.
DotAt(s) ==
    IF \E k \in 1 .. Len(s) : s[k] = "."
    THEN CHOOSE k \in 1 .. Len(s) : s[k] = "." /\ \A j \in 1 .. k - 1 : s[j] # "."
    ELSE 0

\* float(s) accepts an optional sign and then nan, inf, or decimal digits
\* with at most one "." and a digit on at least one side of it.
FloatOk(s) ==
    LET u == Unsigned(strip(s))
        p == DotAt(u)
        whole == SubSeq(u, 1, p - 1)
        frac == SubSeq(u, p + 1, Len(u))
    IN  \/ u \in {<<"n", "a", "n">>, <<"i", "n", "f">>}
        \/ (p = 0 /\ AllDigits(u))
        \/ /\ p > 0
           /\ whole = <<>> \/ AllDigits(whole)
           /\ frac = <<>> \/ AllDigits(frac)
           /\ whole # <<>> \/ frac # <<>>

FloatValue(s) ==
    LET u == Unsigned(strip(s))
        p == DotAt(u)
        whole == IF p = 0 THEN u ELSE SubSeq(u, 1, p - 1)
        frac == IF p = 0 THEN <<>> ELSE SubSeq(u, p + 1, Len(u))
    IN  IF u = <<"n", "a", "n">> THEN FNaN
        ELSE IF u = <<"i", "n", "f">> THEN FInf(SignOf(strip(s)))
        ELSE Fin(SignOf(strip(s)) * (DigitsValue(whole) * Pow10(Len(frac)) + DigitsValue(frac)),
                 Pow10(Len(frac)))

\* --------------------------------------------------------------- importer

expected ==
    << <<"v", "e", "r", "t", "r", "a", "g", "s", "n", "r">>,
       <<"k", "u", "n", "d", "e", "n", "n", "a", "m", "e">>,
       <<"j", "a", "h", "r", "e", "s", "z", "i", "n", "s">>,
       <<"m", "o", "n", "a", "t", "s", "b", "e", "i", "t", "r", "a", "g">>,
       <<"m", "o", "n", "a", "t", "s", "k", "o", "s", "t", "e", "n">>,
       <<"s", "t", "a", "r", "t", "b", "e", "t", "r", "a", "g">>,
       <<"m", "o", "n", "a", "t", "e">> >>

\* A value of the dict DictReader builds for a data row: a str, or None
\* (restval) for a field name the row has no cell for.
Str(s) == [none |-> FALSE, s |-> s]
None == [none |-> TRUE, s |-> <<>>]

\* reader.fieldnames: the first row of the file, None when it has none.
HatFieldnames(f) == Len(f) > 0
fieldnames(f) == f[1]

\* Line 104: the header tokens, each stripped.
header(f) == [k \in 1 .. Len(fieldnames(f)) |-> strip(fieldnames(f)[k])]

\* Mutation of HeaderPasst: the column names are compared without their order.
HeaderPasst_ohneReihenfolge(h) ==
    {h[k] : k \in 1 .. Len(h)} = {expected[k] : k \in 1 .. Len(expected)}

\* Line 108: header != expected
HeaderPasst(h) == h = expected

\* The rows DictReader yields skip every empty row: the first index after
\* line whose row is not empty, 0 when no such row is left.
NextRow(f, line) ==
    LET left == {k \in line + 1 .. Len(f) : f[k] # <<>>}
    IN  IF left = {} THEN 0 ELSE CHOOSE k \in left : \A j \in left : k <= j

\* The dict of a row under the 7 field names: cell k by position, None for
\* the names beyond the row's cells.
RowDict(r) ==
    [k \in 1 .. Len(expected) |-> IF k <= Len(r) THEN Str(r[k]) ELSE None]

\* A row longer than the field names gets the key None (restkey) for the rest.
HatRestkey(r) == Len(r) > Len(expected)

\* Line 113: every value that is a str is stripped.
Getrimmt(d) ==
    [k \in DOMAIN d |-> IF d[k].none THEN d[k] ELSE Str(strip(d[k].s))]

\* Lines 116-118: row.get(k) in (None, "")
Leer(x) == x.none \/ x.s = <<>>

\* The first k of expected whose value is empty, 0 when none is.
ErsteLeereSpalte(d) ==
    LET leer == {k \in DOMAIN d : Leer(d[k])}
    IN  IF leer = {} THEN 0 ELSE CHOOSE k \in leer : \A j \in leer : k <= j

\* Lines 120-130: the conversions in the order of the keyword arguments;
\* the first column whose conversion raises, 0 when all succeed.
ErsteUnlesbareSpalte(d) ==
    LET bad == {k \in {1, 7} : ~IntOk(d[k].s)}
                \cup {k \in {3, 4, 5, 6} : ~FloatOk(d[k].s)}
    IN  IF bad = {} THEN 0 ELSE CHOOSE k \in bad : \A j \in bad : k <= j

Konvertiert(d) ==
    Vertrag(IntValue(d[1].s), d[2].s, FloatValue(d[3].s), FloatValue(d[4].s),
            FloatValue(d[5].s), FloatValue(d[6].s), IntValue(d[7].s))

KeinHeader ==
    Exc("ValueError", "Keine Header-Zeile gefunden (erste Zeile leer?).", {}, <<>>)
HeaderFalsch(h) ==
    Exc("ValueError", "Header passt nicht. Erwartet: {} Bekommen: {}", {},
        [expected |-> expected, header |-> h])
KeinStrip ==
    Exc("AttributeError", "'NoneType' object has no attribute 'strip'", {}, <<>>)
LeererWert(k, d) ==
    Exc("ValueError", "Leerer Wert in Spalte '{}' in Zeile: {}", {},
        [spalte |-> expected[k], zeile |-> d])
Unlesbar(k, d) ==
    Exc("ValueError",
        IF k \in {1, 7} THEN "invalid literal for int() with base 10: {}"
                        ELSE "could not convert string to float: {}",
        {}, [wert |-> d[k].s])

\* What the body of the loop over reader does with row r: the exception it
\* raises, KeinFehler when the row is converted and appended.
ZeilenFehler(r) ==
    LET d == Getrimmt(RowDict(r))
    IN  IF HatRestkey(r) THEN KeinStrip
        ELSE IF ErsteLeereSpalte(d) # 0 THEN LeererWert(ErsteLeereSpalte(d), d)
        ELSE IF ErsteUnlesbareSpalte(d) # 0 THEN Unlesbar(ErsteUnlesbareSpalte(d), d)
        ELSE KeinFehler

\* Lines 93-109: the header is read, stripped and compared.
ImpHeader ==
    /\ pc = "imp_header"
    /\ imp_vertraege' = <<>>
    /\ IF ~HatFieldnames(imp_path)
       THEN /\ imp_out' = Raised(KeinHeader)
            /\ imp_line' = 0
            /\ pc' = "imp_done"
       ELSE IF ~HeaderPasst(header(imp_path))
       THEN /\ imp_out' = Raised(HeaderFalsch(header(imp_path)))
            /\ imp_line' = 1
            /\ pc' = "imp_done"
       ELSE /\ imp_out' = imp_out
            /\ imp_line' = 1
            /\ pc' = "imp_rows"
    /\ UNCHANGED <<caller, imp_path, zpVars, expVars, diskVars, appVars>>

\* Lines 111-130: the next row of the reader is stripped, checked, converted
\* and appended.
ImpRow ==
    /\ pc = "imp_rows"
    /\ NextRow(imp_path, imp_line) # 0
    /\ LET line == NextRow(imp_path, imp_line)
           r == imp_path[line]
       IN  /\ imp_line' = line
           /\ IF ZeilenFehler(r).type # ""
              THEN /\ imp_out' = Raised(ZeilenFehler(r))
                   /\ imp_vertraege' = imp_vertraege
                   /\ pc' = "imp_done"
              ELSE /\ imp_vertraege' =
                          Append(imp_vertraege, Konvertiert(Getrimmt(RowDict(r))))
                   /\ imp_out' = imp_out
                   /\ pc' = pc
    /\ UNCHANGED <<caller, imp_path, zpVars, expVars, diskVars, appVars>>

\* Line 132: the reader is exhausted and vertraege is returned.
ImpReturn ==
    /\ pc = "imp_rows"
    /\ NextRow(imp_path, imp_line) = 0
    /\ imp_out' = Returned(imp_vertraege)
    /\ pc' = "imp_done"
    /\ UNCHANGED <<caller, imp_path, imp_line, imp_vertraege,
                   zpVars, expVars, diskVars, appVars>>

\* --------------------------------------------------------------- exporter

RECURSIVE DigitsOf(_)
\* str(n) of an integer n >= 0
DigitsOf(n) ==
    IF n < 10 THEN <<Digits[n + 1]>>
    ELSE DigitsOf(n \div 10) \o <<Digits[(n % 10) + 1]>>

\* f"{x:.2f}": the sign, the whole part, "." and two digits of x rounded to
\* two decimals; "nan" and "inf" for the values that are no numbers.
Format2f(x) ==
    IF x.k = "nan" THEN <<"n", "a", "n">>
    ELSE IF x.k = "inf"
    THEN (IF x.n < 0 THEN <<"-">> ELSE <<>>) \o <<"i", "n", "f">>
    ELSE LET c == Round2(x)
             cents == Abs(c.n) * (100 \div c.d)
         IN  (IF x.n < 0 THEN <<"-">> ELSE <<>>)
             \o DigitsOf(cents \div 100) \o <<".">>
             \o <<Digits[((cents \div 10) % 10) + 1], Digits[(cents % 10) + 1]>>

\* The letter: the date of the day and the four values interpolated into
\* the fixed template.
erstelle_brief(v, endwert) ==
    [heute |-> "dd.mm.yyyy", vertragsnr |-> v.vertragsnr,
     kundenname |-> v.kundenname, monate |-> v.monate,
     endwert |-> Format2f(endwert)]

KeinBrief == erstelle_brief(KeinVertrag, FInt(0))

\* f"brief_{v.vertragsnr}.txt"
BriefName(v) == <<"brief_", v.vertragsnr, ".txt">>

\* Line 165: the row written to results.csv.
Ergebniszeile(v, endwert) == <<v.vertragsnr, v.kundenname, Format2f(endwert)>>

\* Path.write_text: the file of that name is created or overwritten.
write_text(dir, name, text) ==
    [n \in DOMAIN dir \cup {name} |-> IF n = name THEN text ELSE dir[n]]

\* Lines 152-160: the directories are made, results.csv is opened for
\* writing, which empties it, and the header row is written.
ExportOpen ==
    /\ pc = "exp_open"
    /\ results_csv' = <<>>
    /\ io_log' = <<>>
    /\ exp_idx' = 0
    /\ exp_out' = Pending
    /\ pc' = "exp_loop"
    /\ UNCHANGED <<caller, exp_vertraege, letters, zpVars, impVars, appVars>>

\* Lines 162-163: the next v of vertraege is passed to berechne_zeitplan.
ExportNext ==
    /\ pc = "exp_loop"
    /\ exp_idx < Len(exp_vertraege)
    /\ exp_idx' = exp_idx + 1
    /\ zp_v' = exp_vertraege[exp_idx + 1]
    /\ zp_out' = Pending
    /\ caller' = "export"
    /\ pc' = "zp_check"
    /\ UNCHANGED <<zp_i, zp_wert, zp_m, zp_zeitplan, exp_vertraege,
                   exp_out, impVars, diskVars, appVars>>

\* Lines 164-168: the row of v is written, then its letter.
ExportWrite ==
    /\ pc = "zp_done"
    /\ caller = "export"
    /\ zp_out.status = "ok"
    /\ LET v == exp_vertraege[exp_idx]
           zeitplan == zp_out.value
           endwert == zeitplan[Len(zeitplan)][2]
           brief == erstelle_brief(v, endwert)
       IN  /\ results_csv' = Append(results_csv, Ergebniszeile(v, endwert))
           /\ letters' = write_text(letters, BriefName(v), brief)
           /\ io_log' = Append(io_log, <<BriefName(v), brief>>)
    /\ pc' = "exp_loop"
    /\ zp_v' = KeinVertrag
    /\ zp_i' = FInt(0)
    /\ zp_wert' = FInt(0)
    /\ zp_m' = 0
    /\ zp_zeitplan' = <<>>
    /\ zp_out' = Pending
    /\ UNCHANGED <<caller, expVars, impVars, appVars>>

\* Mutation of ExportRaise: the failing contract is skipped and the loop goes on.
ExportRaise_weiter ==
    /\ pc = "zp_done"
    /\ caller = "export"
    /\ zp_out.status = "raised"
    /\ pc' = "exp_loop"
    /\ zp_v' = KeinVertrag
    /\ zp_i' = FInt(0)
    /\ zp_wert' = FInt(0)
    /\ zp_m' = 0
    /\ zp_zeitplan' = <<>>
    /\ zp_out' = Pending
    /\ UNCHANGED <<caller, expVars, impVars, diskVars, appVars>>

\* The exception of berechne_zeitplan leaves export_ergebnisse: the with
\* block closes results.csv and nothing else is written.
ExportRaise ==
    /\ pc = "zp_done"
    /\ caller = "export"
    /\ zp_out.status = "raised"
    /\ exp_out' = Raised(zp_out.exc)
    /\ pc' = "exp_done"
    /\ zp_v' = KeinVertrag
    /\ zp_i' = FInt(0)
    /\ zp_wert' = FInt(0)
    /\ zp_m' = 0
    /\ zp_zeitplan' = <<>>
    /\ zp_out' = Pending
    /\ UNCHANGED <<caller, exp_vertraege, exp_idx, impVars, diskVars, appVars>>

\* Line 170: the loop is exhausted and the two paths are returned.
ExportReturn ==
    /\ pc = "exp_loop"
    /\ exp_idx >= Len(exp_vertraege)
    /\ exp_out' = Returned(<<"results.csv", "letters">>)
    /\ pc' = "exp_done"
    /\ UNCHANGED <<caller, exp_vertraege, exp_idx, zpVars, impVars, diskVars, appVars>>

\* ------------------------------------------------------------------- shell

\* What the last handler showed in a message box or wrote to the log.
Meldung(kind, exc, brief) == [kind |-> kind, exc |-> exc, brief |-> brief]

\* The files the file dialog offers, by number:
\*   1  two contracts, numbers 1 and 2          5  a header without monate
\*   2  two contracts, both numbered 1          6  a contract of 0 months first
\*   3  Scenario D between two contracts        7  the header alone
\*   4  a third row whose monate is "x"         8  no line at all
ZeileA ==
    << <<"1">>, <<"M", "u", "e", "l", "l", "e", "r">>, <<"0", ".", "1", "2">>,
       <<"1", "0", "0">>, <<"1", "0">>, <<"1", "0", "0", "0">>, <<"3">> >>
ZeileB ==
    << <<"2">>, <<"M", "e", "i", "e", "r">>, <<"1", ".", "5">>, <<"0">>,
       <<"0">>, <<"1">>, <<"3">> >>
ZeileDoppelt ==
    << <<"1">>, <<"M", "e", "i", "e", "r">>, <<"0">>, <<"1">>, <<"0">>,
       <<"1">>, <<"2">> >>
ZeileD ==
    << <<"2">>, <<"M", "e", "i", "e", "r">>, <<"0">>, <<"0">>, <<"1">>,
       <<"4">>, <<"6">> >>
ZeileNull ==
    << <<"2">>, <<"M", "u", "e", "l", "l", "e", "r">>, <<"0">>, <<"1">>,
       <<"0">>, <<"1">>, <<"0">> >>
ZeileX == [ZeileB EXCEPT ![7] = <<"x">>]

Dateien ==
    << <<expected, ZeileA, ZeileB>>,
       <<expected, ZeileA, ZeileDoppelt>>,
       <<expected, ZeileB, ZeileD, ZeileA>>,
       <<expected, ZeileA, ZeileB, ZeileX>>,
       <<SubSeq(expected, 1, 6), SubSeq(ZeileA, 1, 6)>>,
       <<expected, ZeileNull, ZeileA>>,
       <<expected>>,
       <<>> >>

\* choose_input: the dialog returns one of the files (a cancelled dialog
\* changes nothing).
choose_input ==
    /\ pc = "idle"
    /\ \E f \in 1 .. Len(Dateien) : input_file' = f
    /\ last' = Meldung("Input gesetzt", KeinFehler, KeinBrief)
    /\ UNCHANGED <<pc, caller, out_dir, vertraege, btn_run,
                   zpVars, impVars, expVars, diskVars>>

\* choose_out_dir
choose_out_dir ==
    /\ pc = "idle"
    /\ out_dir' = TRUE
    /\ last' = Meldung("Output gesetzt", KeinFehler, KeinBrief)
    /\ UNCHANGED <<pc, caller, input_file, vertraege, btn_run,
                   zpVars, impVars, expVars, diskVars>>

\* load_data, lines 264-269: without an input file an error is shown,
\* otherwise import_vertraege_txt is called.
load_data ==
    /\ pc = "idle"
    /\ IF input_file = 0
       THEN /\ last' = Meldung("Bitte zuerst eine contracts.txt auswaehlen.",
                               KeinFehler, KeinBrief)
            /\ UNCHANGED <<pc, impVars>>
       ELSE /\ imp_path' = Dateien[input_file]
            /\ imp_line' = 0
            /\ imp_vertraege' = <<>>
            /\ imp_out' = Pending
            /\ pc' = "imp_header"
            /\ last' = last
    /\ UNCHANGED <<caller, input_file, out_dir, vertraege, btn_run,
                   zpVars, expVars, diskVars>>

\* Mutation of VertraegeNachFehler: the rows converted before the failure
\* replace the loaded list.
VertraegeNachFehler_Teilliste(alt, teil) == teil

\* self.vertraege after import_vertraege_txt has raised: the assignment of
\* line 269 did not happen; teil is the list the importer had built.
VertraegeNachFehler(alt, teil) == alt

\* load_data, lines 269-276: the returned list is stored and the buttons are
\* enabled, or the exception is shown and logged.
load_data_done ==
    /\ pc = "imp_done"
    /\ IF imp_out.status = "ok"
       THEN /\ vertraege' = imp_out.value
            /\ btn_run' = "normal"
            /\ last' = Meldung("Vertraege geladen.", KeinFehler, KeinBrief)
       ELSE /\ vertraege' = VertraegeNachFehler(vertraege, imp_vertraege)
            /\ btn_run' = btn_run
            /\ last' = Meldung("IMPORT FEHLER", imp_out.exc, KeinBrief)
    /\ imp_path' = <<>>
    /\ imp_line' = 0
    /\ imp_vertraege' = <<>>
    /\ imp_out' = Pending
    /\ pc' = "idle"
    /\ UNCHANGED <<caller, input_file, out_dir, zpVars, expVars, diskVars>>

\* run_export, lines 288-296: btn_run is enabled; without contracts or
\* without an output directory an error is shown, otherwise
\* export_ergebnisse is called.
run_export ==
    /\ pc = "idle"
    /\ btn_run = "normal"
    /\ IF vertraege = <<>>
       THEN /\ last' = Meldung("Keine Vertraege geladen.", KeinFehler, KeinBrief)
            /\ UNCHANGED <<pc, exp_vertraege>>
       ELSE IF ~out_dir
       THEN /\ last' = Meldung("Bitte zuerst einen Output-Ordner auswaehlen.",
                               KeinFehler, KeinBrief)
            /\ UNCHANGED <<pc, exp_vertraege>>
       ELSE /\ exp_vertraege' = vertraege
            /\ pc' = "exp_open"
            /\ last' = last
    /\ UNCHANGED <<caller, exp_idx, exp_out, input_file, out_dir, vertraege,
                   btn_run, zpVars, impVars, diskVars>>

\* run_export, lines 296-302: the paths are logged and shown, or the exception.
run_export_done ==
    /\ pc = "exp_done"
    /\ last' = IF exp_out.status = "ok"
               THEN Meldung("Export OK", KeinFehler, KeinBrief)
               ELSE Meldung("EXPORT FEHLER", exp_out.exc, KeinBrief)
    /\ exp_vertraege' = <<>>
    /\ exp_idx' = 0
    /\ exp_out' = Pending
    /\ pc' = "idle"
    /\ UNCHANGED <<caller, input_file, out_dir, vertraege, btn_run,
                   zpVars, impVars, diskVars>>

\* preview_letter, lines 305-312: btn_preview is enabled; without contracts
\* an error is shown, otherwise the first contract is valued.
preview_letter ==
    /\ pc = "idle"
    /\ btn_run = "normal"
    /\ IF vertraege = <<>>
       THEN /\ last' = Meldung("Bitte zuerst Daten laden.", KeinFehler, KeinBrief)
            /\ UNCHANGED <<pc, caller, zp_v>>
       ELSE /\ zp_v' = vertraege[1]
            /\ caller' = "preview"
            /\ pc' = "zp_check"
            /\ last' = last
    /\ UNCHANGED <<zp_i, zp_wert, zp_m, zp_zeitplan, zp_out, input_file, out_dir,
                   vertraege, btn_run, impVars, expVars, diskVars>>

\* preview_letter, lines 312-324: the letter is shown in a window, or the
\* exception is shown and logged.
preview_letter_done ==
    /\ pc = "zp_done"
    /\ caller = "preview"
    /\ last' = IF zp_out.status = "ok"
               THEN Meldung("Brief-Vorschau", KeinFehler,
                            erstelle_brief(zp_v, zp_out.value[Len(zp_out.value)][2]))
               ELSE Meldung("VORSCHAU FEHLER", zp_out.exc, KeinBrief)
    /\ zp_v' = KeinVertrag
    /\ zp_i' = FInt(0)
    /\ zp_wert' = FInt(0)
    /\ zp_m' = 0
    /\ zp_zeitplan' = <<>>
    /\ zp_out' = Pending
    /\ pc' = "idle"
    /\ UNCHANGED <<caller, input_file, out_dir, vertraege, btn_run,
                   impVars, expVars, diskVars>>

\* ------------------------------------------- initial values of the locals

ZpLocalsInit ==
    /\ zp_v = KeinVertrag
    /\ zp_i = FInt(0)
    /\ zp_wert = FInt(0)
    /\ zp_m = 0
    /\ zp_zeitplan = <<>>
    /\ zp_out = Pending

ImpLocalsInit ==
    /\ imp_path = <<>>
    /\ imp_line = 0
    /\ imp_vertraege = <<>>
    /\ imp_out = Pending

ExpLocalsInit ==
    /\ exp_vertraege = <<>>
    /\ exp_idx = 0
    /\ exp_out = Pending

DiskInit ==
    /\ results_csv = <<>>
    /\ letters = <<>>
    /\ io_log = <<>>

\* ZurichApp.__init__
AppInit ==
    /\ input_file = 0
    /\ out_dir = FALSE
    /\ vertraege = <<>>
    /\ btn_run = "disabled"
    /\ last = Meldung("none", KeinFehler, KeinBrief)

\* ------------------------------- berechne_zeitplan on enumerated contracts

\* Scenario A of the specification: 0.12 a year, 100 in, 10 out, 1000 at
\* the start, 3 months.
Mueller == <<"M", "u", "e", "l", "l", "e", "r">>
Meier == <<"M", "e", "i", "e", "r">>

ScenarioA ==
    Vertrag(1, Mueller, Fin(12, 100), FInt(100), FInt(10), FInt(1000), 3)

\* Scenario D: the value falls by 1 a month from 4 and is negative at month 5.
ScenarioD ==
    Vertrag(2, Meier, FInt(0), FInt(0), FInt(1), FInt(4), 6)

Zinsen == {FInt(0), FInt(6), Fin(3, 2), FInt(-12), FInt(-24), FNaN}
Beitraege == {FInt(-1), FInt(0), FInt(1)}
Kosten == {FInt(-1), FInt(0), FInt(1)}
Startbetraege == {FInt(-1), FInt(0), FInt(1), Fin(1, 2), FNaN, FInf(1)}

VertragDomain ==
    {Vertrag(nr, Mueller, z, b, k, s, mo) :
        nr \in {1, 2}, z \in Zinsen, b \in Beitraege, k \in Kosten,
        s \in Startbetraege, mo \in -1 .. MaxMonate}
    \cup {ScenarioA, ScenarioD}

InitZeitplan ==
    /\ pc = "zp_check"
    /\ caller = "direct"
    /\ zp_v \in VertragDomain
    /\ zp_i = FInt(0)
    /\ zp_wert = FInt(0)
    /\ zp_m = 0
    /\ zp_zeitplan = <<>>
    /\ zp_out = Pending
    /\ ImpLocalsInit
    /\ ExpLocalsInit
    /\ DiskInit
    /\ AppInit

NextZeitplan == ZpCheck \/ ZpStep \/ ZpReturn

SpecZeitplan == InitZeitplan /\ [][NextZeitplan]_vars

\* ------------------------------------------ claims on berechne_zeitplan

\* nextValue as the specification states it:
\* current * (1 + monthlyRate) + (contribution - cost), monthlyRate = annualRate / 12.
NextValue(current, contribution, cost, monthlyRate) ==
    FAdd(FMul(current, FAdd(FInt(1), monthlyRate)), FSub(contribution, cost))

\* nextValue applied m times in sequence to startAmount, never rounded.
RECURSIVE ValueAfter(_, _)
ValueAfter(v, m) ==
    IF m = 0 THEN v.startbetrag
    ELSE NextValue(ValueAfter(v, m - 1), v.monatsbeitrag, v.monatskosten,
                   FDiv12(v.jahreszins))

\* A precondition of computeSchedule is violated.
Invalid(v) ==
    \/ v.monate <= 0
    \/ FNeg(v.startbetrag)
    \/ FNeg(v.monatsbeitrag)
    \/ FNeg(v.monatskosten)

\* The contract fields that are out of range.
OutOfRange(v) ==
    {f \in {"monate"} : v.monate <= 0}
    \cup {f \in {"startbetrag"} : FNeg(v.startbetrag)}
    \cup {f \in {"monatsbeitrag"} : FNeg(v.monatsbeitrag)}
    \cup {f \in {"monatskosten"} : FNeg(v.monatskosten)}

\* The first month whose unrounded value is negative, 0 when there is none.
FirstNegative(v) ==
    LET neg == {m \in 1 .. v.monate : FNeg(ValueAfter(v, m))}
    IN  IF neg = {} THEN 0 ELSE CHOOSE m \in neg : \A n \in neg : m <= n

ZpReturned == pc = "zp_done" /\ zp_out.status = "ok"
ZpRaised == pc = "zp_done" /\ zp_out.status = "raised"
NegativeText == "Negativer Vertragswert bei Vertrag {} (Monat {})."
ValidationTexts ==
    {"Monate muessen > 0 sein.", "Startbetrag darf nicht negativ sein.",
     "Beitrag/Kosten duerfen nicht negativ sein."}

\* C1: a returned schedule has exactly monate entries, its k-th entry carries
\* month number k, and every recorded value is >= 0.
C1_ScheduleShape ==
    ZpReturned =>
        /\ Len(zp_out.value) = zp_v.monate
        /\ \A k \in 1 .. Len(zp_out.value) :
              /\ zp_out.value[k][1] = k
              /\ FNonNeg(zp_out.value[k][2])

\* C1, restricted to contracts whose rate and amounts are numbers (no nan
\* among them and none arising from inf * 0): the statement of C1 holds.
C1_ScheduleShapeOfNumbers ==
    (ZpReturned /\ \A m \in 0 .. zp_v.monate : ValueAfter(zp_v, m).k # "nan")
        => C1_ScheduleShape

\* C2: when the recurrence of a contract that passes the preconditions is
\* negative at some month, the call raises the error that carries the contract
\* number and the first such month m, the schedule never holds an entry for
\* month m or a later one, and nothing is returned.
C2_NegativeValueError ==
    (~Invalid(zp_v) /\ FirstNegative(zp_v) > 0) =>
        /\ \A k \in 1 .. Len(zp_zeitplan) : zp_zeitplan[k][1] < FirstNegative(zp_v)
        /\ zp_out.status # "ok"
        /\ pc = "zp_done" =>
              /\ zp_out.status = "raised"
              /\ zp_out.exc.text = NegativeText
              /\ zp_out.exc.args.vertragsnr = zp_v.vertragsnr
              /\ zp_out.exc.args.monat = FirstNegative(zp_v)
              /\ Len(zp_zeitplan) = FirstNegative(zp_v) - 1
              /\ zp_out.value = <<>>

\* C2 witness: Scenario D has raised at month 5 with four entries computed.
C2_Witness ==
    /\ ZpRaised
    /\ zp_v = ScenarioD
    /\ zp_out.exc.text = NegativeText
    /\ zp_out.exc.args.monat = 5
    /\ Len(zp_zeitplan) = 4

\* C5: a contract that violates a precondition fails with a validation error
\* before any recurrence step is applied and before any entry is produced.
C5_ValidationFirst ==
    Invalid(zp_v) =>
        /\ pc \in {"zp_check", "zp_done"}
        /\ zp_zeitplan = <<>>
        /\ zp_m = 0
        /\ pc = "zp_done" =>
              /\ zp_out.status = "raised"
              /\ zp_out.exc.text \in ValidationTexts
              /\ zp_wert = zp_v.startbetrag

\* C5 witness: a contract of 0 months and otherwise valid fields has failed.
C5_Witness ==
    /\ ZpRaised
    /\ zp_v.monate = 0
    /\ OutOfRange(zp_v) = {"monate"}
    /\ zp_out.exc.text \in ValidationTexts

\* C6: the validation error names the field that is out of range and carries
\* the contract number.
C6_ErrorNamesFieldAndContract ==
    (pc = "zp_done" /\ Invalid(zp_v)) =>
        /\ zp_out.status = "raised"
        /\ zp_out.exc.felder # {}
        /\ zp_out.exc.felder \subseteq OutOfRange(zp_v)
        /\ "vertragsnr" \in DOMAIN zp_out.exc.args
        /\ zp_out.exc.args.vertragsnr = zp_v.vertragsnr

\* C6, the part the code provides: the error text names a group of fields
\* that contains a field out of range.
C6_ErrorNamesFieldGroup ==
    (pc = "zp_done" /\ Invalid(zp_v)) =>
        /\ zp_out.status = "raised"
        /\ zp_out.exc.felder \cap OutOfRange(zp_v) # {}

\* C10: the value recorded for month m is the 2-decimal rounding of nextValue
\* applied m times to startAmount without rounding in between; Scenario A
\* yields [(1, 1100.00), (2, 1201.00), (3, 1303.01)].
C10_Recurrence ==
    ZpReturned =>
        /\ \A m \in 1 .. Len(zp_out.value) :
              zp_out.value[m] = <<m, Round2(ValueAfter(zp_v, m))>>
        /\ zp_v = ScenarioA =>
              zp_out.value = << <<1, FInt(1100)>>, <<2, FInt(1201)>>,
                                <<3, Fin(130301, 100)>> >>

\* C10 witness: Scenario A has returned its three entries.
C10_Witness == ZpReturned /\ zp_v = ScenarioA /\ Len(zp_out.value) = 3

\* ---------------------------- import_vertraege_txt on enumerated files

\* Two rows that convert: "1;Mueller;0;1;0;1;2" and " 2 ;Meier; 1.5;0;1;1;3 ".
GuteZeile1 ==
    << <<"1">>, <<"M", "u", "e", "l", "l", "e", "r">>, <<"0">>, <<"1">>,
       <<"0">>, <<"1">>, <<"2">> >>
GuteZeile2 ==
    << <<" ", "2", " ">>, <<"M", "e", "i", "e", "r">>, <<" ", "1", ".", "5">>,
       <<"0">>, <<"1">>, <<"1">>, <<"3", " ">> >>
GuteZeilen == {GuteZeile1, GuteZeile2}

\* Cells put in the place of a good one: empty, blank, not a number, a decimal
\* comma, a decimal point, nan, a negative number.
Ersatzzellen ==
    {<<>>, <<" ">>, <<"x">>, <<"1", ",", "5">>, <<"1", ".", "5">>,
     <<"n", "a", "n">>, <<"-", "1">>}

Ersetzt(r, c, t) == [r EXCEPT ![c] = t]

ZeilenDomain ==
    GuteZeilen
    \cup {Ersetzt(r, c, t) : r \in GuteZeilen, c \in 1 .. 7, t \in Ersatzzellen}
    \cup {Ersetzt(Ersetzt(r, c1, <<>>), c2, <<" ">>) :
            r \in {GuteZeile1}, c1 \in 1 .. 7, c2 \in 1 .. 7}
    \cup {SubSeq(r, 1, n) : r \in GuteZeilen, n \in 0 .. 6}
    \cup {r \o <<t>> : r \in GuteZeilen, t \in {<<>>, <<"x">>}}
    \cup {Ersetzt(r, c, <<>>) \o <<t>> :
            r \in {GuteZeile1}, c \in 1 .. 7, t \in {<<>>, <<"x">>}}

Gross(s) == IF s = expected[1] THEN <<"V">> \o Tail(s) ELSE s

\* Header rows: the expected one, with blanks around the tokens, and rows
\* with a column missing, added, renamed, in another case or out of order;
\* the empty row of a blank first line; a data row in the header's place.
HeaderDomain ==
    {expected,
     [k \in 1 .. 7 |-> <<" ">> \o expected[k] \o <<" ", " ">>],
     <<>>,
     GuteZeile1,
     expected \o <<<<"x">>>>,
     [k \in 1 .. 7 |-> Gross(expected[k])],
     Ersetzt(expected, 2, <<"n", "a", "m", "e">>)}
    \cup {SubSeq(expected, 1, c - 1) \o SubSeq(expected, c + 1, 7) : c \in 1 .. 7}
    \cup {[k \in 1 .. 7 |-> IF k = c THEN expected[c + 1]
                            ELSE IF k = c + 1 THEN expected[c] ELSE expected[k]] :
            c \in 1 .. 6}

RECURSIVE Folgen(_, _)
\* The sequences of at most n elements of S.
Folgen(S, n) ==
    IF n = 0 THEN {<<>>}
    ELSE Folgen(S, n - 1)
         \cup {Append(q, x) : q \in {p \in Folgen(S, n - 1) : Len(p) = n - 1}, x \in S}

\* The empty file; every header row followed by at most one good row; the
\* expected header followed by good rows and one last row of ZeilenDomain.
DateiDomain ==
    {<<>>}
    \cup {<<h>> \o q : h \in HeaderDomain, q \in Folgen({GuteZeile1}, 1)}
    \cup {<<h>> \o q \o <<r>> :
            h \in {expected}, q \in Folgen(GuteZeilen, MaxZeilen - 1), r \in ZeilenDomain}

InitImport ==
    /\ pc = "imp_header"
    /\ caller = "direct"
    /\ imp_path \in DateiDomain
    /\ imp_line = 0
    /\ imp_vertraege = <<>>
    /\ imp_out = Pending
    /\ ZpLocalsInit
    /\ ExpLocalsInit
    /\ DiskInit
    /\ AppInit

NextImport == ImpHeader \/ ImpRow \/ ImpReturn

SpecImport == InitImport /\ [][NextImport]_vars

\* --------------------------------------- claims on import_vertraege_txt

\* s without its leading and trailing whitespace.
Trimmed(s) ==
    LET ink == {k \in 1 .. Len(s) : s[k] \notin Whitespace}
    IN  IF ink = {} THEN <<>>
        ELSE SubSeq(s, CHOOSE k \in ink : \A j \in ink : k <= j,
                       CHOOSE k \in ink : \A j \in ink : k >= j)

TrimmedRow(r) == [k \in 1 .. Len(r) |-> Trimmed(r[k])]

\* The header row is missing, or its trimmed tokens are not the expected list.
HeaderBad(f) == f = <<>> \/ TrimmedRow(f[1]) # expected

HeaderText == "Header passt nicht. Erwartet: {} Bekommen: {}"
EmptyText == "Leerer Wert in Spalte '{}' in Zeile: {}"

\* The error reports the expected and the received headers.
ReportsHeaders(exc, f) ==
    /\ exc.type = "ValueError"
    /\ exc.text = HeaderText
    /\ exc.args.expected = expected
    /\ exc.args.header = TrimmedRow(f[1])

\* C7 as stated: a missing header row or a header that is not the expected
\* list fails with an error reporting expected and received headers, before
\* any data row is converted.
C7_HeaderErrorReportsHeaders ==
    HeaderBad(imp_path) =>
        /\ pc \in {"imp_header", "imp_done"}
        /\ imp_vertraege = <<>>
        /\ imp_line <= 1
        /\ pc = "imp_done" =>
              /\ imp_out.status = "raised"
              /\ imp_path # <<>>
              /\ ReportsHeaders(imp_out.exc, imp_path)

\* C7 as amended: as C7, but for a file without any row the error only says
\* that no header row was found and reports no headers.
C7_HeaderError ==
    HeaderBad(imp_path) =>
        /\ pc \in {"imp_header", "imp_done"}
        /\ imp_vertraege = <<>>
        /\ imp_line <= 1
        /\ pc = "imp_done" =>
              /\ imp_out.status = "raised"
              /\ IF imp_path = <<>>
                 THEN /\ imp_out.exc.type = "ValueError"
                      /\ imp_out.exc.text # HeaderText
                      /\ imp_out.exc.args = <<>>
                 ELSE ReportsHeaders(imp_out.exc, imp_path)

\* C7 witness: a header row that lacks a column has failed in front of a data row.
C7_Witness ==
    /\ pc = "imp_done"
    /\ Len(imp_path) = 2
    /\ Len(imp_path[1]) = 6
    /\ imp_out.status = "raised"
    /\ imp_out.exc.text = HeaderText

\* A data row with one of the 7 fields missing or empty after trimming.
HasEmptyField(r) ==
    r # <<>> /\ \E k \in 1 .. 7 : k > Len(r) \/ Trimmed(r[k]) = <<>>

FirstEmptyField(r) ==
    CHOOSE k \in 1 .. 7 :
        /\ k > Len(r) \/ Trimmed(r[k]) = <<>>
        /\ \A j \in 1 .. k - 1 : j <= Len(r) /\ Trimmed(r[j]) # <<>>

\* The content of the 7 fields of a row, trimmed.
RowContent(r) ==
    [k \in 1 .. 7 |-> IF k <= Len(r) THEN Str(Trimmed(r[k])) ELSE None]

\* The data row the loop has reached has a missing or empty field.
AtRowWithEmptyField ==
    /\ pc \in {"imp_rows", "imp_done"}
    /\ imp_line >= 2
    /\ HasEmptyField(imp_path[imp_line])

\* C8: a data row with a missing or empty field makes the import fail with
\* the error that names the first such column and carries the row content.
C8_EmptyFieldError ==
    AtRowWithEmptyField =>
        /\ pc = "imp_done"
        /\ imp_out.status = "raised"
        /\ imp_out.exc.type = "ValueError"
        /\ imp_out.exc.text = EmptyText
        /\ imp_out.exc.args.spalte = expected[FirstEmptyField(imp_path[imp_line])]
        /\ imp_out.exc.args.zeile = RowContent(imp_path[imp_line])

\* C8, restricted to rows of at most 7 cells: the statement of C8 holds.
C8_EmptyFieldErrorShortRows ==
    (AtRowWithEmptyField /\ Len(imp_path[imp_line]) <= 7) => C8_EmptyFieldError

\* Scenario C: a row with monatskosten empty and the earlier fields filled
\* has failed naming monatskosten.
C8_ScenarioC ==
    /\ pc = "imp_done"
    /\ imp_line >= 2
    /\ Len(imp_path[imp_line]) = 7
    /\ HasEmptyField(imp_path[imp_line])
    /\ FirstEmptyField(imp_path[imp_line]) = 5
    /\ imp_out.exc.text = EmptyText
    /\ imp_out.exc.args.spalte = expected[5]

\* ------------------------------- export_ergebnisse on enumerated lists

\* Contracts 1 and 2 with a schedule, a second contract numbered 1 with
\* another customer and end value, Scenario D, and a contract of 0 months.
VertragB == Vertrag(2, Meier, Fin(3, 2), FInt(0), FInt(0), FInt(1), 3)
VertragDoppelt == Vertrag(1, Meier, FInt(0), FInt(1), FInt(0), FInt(1), 2)
VertragNull == Vertrag(2, Mueller, FInt(0), FInt(1), FInt(0), FInt(1), 0)

ExportVertraege == {ScenarioA, VertragB, VertragDoppelt, ScenarioD, VertragNull}

\* The files an earlier export of contract 1 has left in the output directory.
AlterBrief == erstelle_brief(Vertrag(1, Mueller, FInt(0), FInt(0), FInt(0), FInt(7), 1), FInt(7))
AlteBriefe == write_text(<<>>, BriefName(ScenarioA), AlterBrief)
AlteErgebnisse == <<Ergebniszeile(ScenarioA, FInt(7))>>

InitExport ==
    /\ pc = "exp_open"
    /\ caller = "direct"
    /\ exp_vertraege \in Folgen(ExportVertraege, MaxVertraege)
    /\ exp_idx = 0
    /\ exp_out = Pending
    /\ \/ DiskInit
       \/ /\ results_csv = AlteErgebnisse
          /\ letters = AlteBriefe
          /\ io_log = <<>>
    /\ ZpLocalsInit
    /\ ImpLocalsInit
    /\ AppInit

NextExport ==
    \/ ExportOpen
    \/ ExportNext
    \/ ZpCheck
    \/ ZpStep
    \/ ZpReturn
    \/ ExportWrite
    \/ ExportRaise
    \/ ExportReturn

SpecExport == InitExport /\ [][NextExport]_vars

\* ------------------------------------------- claims on export_ergebnisse

\* The valuation of v fails.
Fails(v) == Invalid(v) \/ FirstNegative(v) > 0

\* The end value of v: the rounded value of its last month.
EndValue(v) == Round2(ValueAfter(v, v.monate))

\* The position of the first contract of q whose valuation fails, 0 when none does.
FirstFailing(q) ==
    LET bad == {k \in 1 .. Len(q) : Fails(q[k])}
    IN  IF bad = {} THEN 0 ELSE CHOOSE k \in bad : \A j \in bad : k <= j

\* The end value with exactly two decimals, as digits.
TwoDecimals(x) ==
    IF x.k # "fin" THEN Format2f(x)
    ELSE LET cents == (x.n * 100) \div x.d
         IN  DigitsOf(cents \div 100) \o <<".">> \o DigitsOf((cents \div 10) % 10)
             \o DigitsOf(cents % 10)

ResultRow(v) == <<v.vertragsnr, v.kundenname, TwoDecimals(EndValue(v))>>

\* The name and the content of the letter of v.
LetterName(v) == <<"brief_", v.vertragsnr, ".txt">>
Letter(v) ==
    [heute |-> "dd.mm.yyyy", vertragsnr |-> v.vertragsnr,
     kundenname |-> v.kundenname, monate |-> v.monate,
     endwert |-> TwoDecimals(EndValue(v))]

\* C3: when the valuation of the contract at position k fails, the error
\* leaves the export with rows and letters written for exactly the contracts
\* before k, in input order, and nothing written for k or a later contract.
C3_AbortAll ==
    (pc = "exp_done" /\ FirstFailing(exp_vertraege) > 0) =>
        LET k == FirstFailing(exp_vertraege)
        IN  /\ exp_out.status = "raised"
            /\ exp_out.exc.type = "ValueError"
            /\ exp_out.exc.text \in ValidationTexts \cup {NegativeText}
            /\ exp_out.exc.text = NegativeText <=> ~Invalid(exp_vertraege[k])
            /\ exp_out.exc.text = NegativeText =>
                  /\ exp_out.exc.args.vertragsnr = exp_vertraege[k].vertragsnr
                  /\ exp_out.exc.args.monat = FirstNegative(exp_vertraege[k])
            /\ exp_idx = k
            /\ results_csv = [j \in 1 .. k - 1 |-> ResultRow(exp_vertraege[j])]
            /\ io_log = [j \in 1 .. k - 1 |->
                            <<LetterName(exp_vertraege[j]), Letter(exp_vertraege[j])>>]
            /\ \A j \in 1 .. k - 1 : LetterName(exp_vertraege[j]) \in DOMAIN letters

\* C3 witness: Scenario D at the third position has failed at month 5 after
\* two contracts were written over the files of an earlier export.
C3_Witness ==
    /\ pc = "exp_done"
    /\ exp_out.status = "raised"
    /\ Len(exp_vertraege) = 3
    /\ exp_vertraege[3] = ScenarioD
    /\ exp_out.exc.text = NegativeText
    /\ exp_out.exc.args.monat = 5
    /\ Len(results_csv) = 2
    /\ Len(io_log) = 2

\* C4: after a successful export of n contracts results.csv holds their n rows
\* in input order and there is one letter file per contract, named after its
\* number and holding its own end value, duplicate numbers included.
C4_OneRowAndLetterPerContract ==
    (pc = "exp_done" /\ exp_out.status = "ok") =>
        LET n == Len(exp_vertraege)
        IN  /\ results_csv = [j \in 1 .. n |-> ResultRow(exp_vertraege[j])]
            /\ Cardinality({io_log[j][1] : j \in 1 .. Len(io_log)}) = n
            /\ \A j \in 1 .. n :
                  /\ LetterName(exp_vertraege[j]) \in DOMAIN letters
                  /\ letters[LetterName(exp_vertraege[j])] = Letter(exp_vertraege[j])

\* C4, restricted to lists whose contract numbers are pairwise distinct: the
\* statement of C4 holds.
C4_DistinctNumbers ==
    (\A j, k \in 1 .. Len(exp_vertraege) :
        exp_vertraege[j].vertragsnr = exp_vertraege[k].vertragsnr => j = k)
        => C4_OneRowAndLetterPerContract

\* C4, what the code does for any list: the rows are as stated, and the file
\* named after a number holds the letter of the last contract with that number.
C4_LastLetterWins ==
    (pc = "exp_done" /\ exp_out.status = "ok") =>
        LET n == Len(exp_vertraege)
        IN  /\ results_csv = [j \in 1 .. n |-> ResultRow(exp_vertraege[j])]
            /\ \A j \in 1 .. n :
                  (\A k \in j + 1 .. n :
                      exp_vertraege[k].vertragsnr # exp_vertraege[j].vertragsnr)
                  => letters[LetterName(exp_vertraege[j])] = Letter(exp_vertraege[j])

\* ------------------------------------------------------------ the program

\* ZurichApp() and an empty output directory.
Init ==
    /\ pc = "idle"
    /\ caller = "none"
    /\ ZpLocalsInit
    /\ ImpLocalsInit
    /\ ExpLocalsInit
    /\ DiskInit
    /\ AppInit

Next ==
    \/ choose_input
    \/ choose_out_dir
    \/ load_data
    \/ ImpHeader
    \/ ImpRow
    \/ ImpReturn
    \/ load_data_done
    \/ run_export
    \/ ExportOpen
    \/ ExportNext
    \/ ZpCheck
    \/ ZpStep
    \/ ZpReturn
    \/ ExportWrite
    \/ ExportRaise
    \/ ExportReturn
    \/ run_export_done
    \/ preview_letter
    \/ preview_letter_done

Spec == Init /\ [][Next]_vars

\* ------------------------------------------------- claims on load_data

\* The file converts as a whole: its header is the expected one and no data
\* row has a missing or empty field or a number that does not parse.
Importable(f) ==
    /\ ~HeaderBad(f)
    /\ \A k \in 2 .. Len(f) : f[k] # <<>> => ZeilenFehler(f[k]) = KeinFehler

RECURSIVE AllRows(_, _)
\* The contracts of the data rows of f from row k on.
AllRows(f, k) ==
    IF k > Len(f) THEN <<>>
    ELSE IF f[k] = <<>> THEN AllRows(f, k + 1)
    ELSE <<Konvertiert(Getrimmt(RowDict(f[k])))>> \o AllRows(f, k + 1)

\* The lists the shell may hold: the empty list of __init__ and the complete
\* list of a file that converts as a whole.
CompleteLists ==
    {<<>>} \cup {AllRows(Dateien[f], 2) : f \in {g \in 1 .. Len(Dateien) : Importable(Dateien[g])}}

\* C9: a failing import returns no list, and the step of load_data that
\* handles the failure leaves the loaded list as it was; the loaded list is
\* never a part of a file's list.
C9_AllOrNothing ==
    /\ [](vertraege \in CompleteLists)
    /\ [](imp_out.status = "raised" => imp_out.value = <<>>)
    /\ [][(pc = "imp_done" /\ imp_out.status = "raised")
            => (vertraege' = vertraege /\ pc' = "idle"
                /\ last'.kind = "IMPORT FEHLER" /\ last'.exc = imp_out.exc)]_vars

\* C9 witness: the load of file 4 has failed at its last row, after two rows
\* were converted, while a list loaded before is held.
C9_Witness ==
    /\ pc = "idle"
    /\ input_file = 4
    /\ last.kind = "IMPORT FEHLER"
    /\ last.exc.text = "invalid literal for int() with base 10: {}"
    /\ vertraege # <<>>

====
